---- MODULE Spec2Model ----
(***************************************************************************)
(* The enrichment pipeline of build_initial_hubspot_data/main.py.          *)
(*                                                                         *)
(* A pandas DataFrame is a sequence of rows; a row is a function from      *)
(* column names to values.  Device keys (prod_name), assignment names      *)
(* (human_name) and timestamps are positive integers, operator names are   *)
(* strings.  Columns of the inventory that no join or enrichment pass      *)
(* reads (serial_number, production_date, latitude, longitude and the      *)
(* columns derived from the serial) are left out of the rows of Spec;      *)
(* SpecSerial is the derivation of version and features from the serial.   *)
(***************************************************************************)
EXTENDS Integers, Sequences, FiniteSets, TLC

\* ------------------------------------------------------------------ bounds
NumDevices == 2      \* devices of the inventory, and assignments of the list
MaxTime == 3         \* timestamps of events are 1..MaxTime
MaxPairs == 2        \* (assignment, device) pairs over all historical lists
MaxSerialLen == 5    \* tokens of a serial number drawn freely
MaxFields == 3       \* quoted fields of a status line drawn freely

NumSensors == NumDevices
Devices == 1..NumDevices
SensorNames == 1..NumSensors
Times == 1..MaxTime

\* ------------------------------------------------------------------ values
\* Python None / pandas NaN in an integer-valued column.
None == 0
\* Python None / pandas NaN in a string-valued column.
NoOperator == "None"

StrCols == {"link_operator", "last_link_operator"}
NaN(c) == IF c \in StrCols THEN NoOperator ELSE None
\* pd.isna on a value of an integer-valued column (the sort keys are such).
isna(v) == v = None

\* ------------------------------------------------ DataFrame operations
\* df[cols]
select(df, cols) == [i \in DOMAIN df |-> [c \in cols |-> df[i][c]]]

\* df.drop(columns=cols)
drop(df, cols) == [i \in DOMAIN df |-> [c \in (DOMAIN df[i]) \ cols |-> df[i][c]]]

\* df.rename(columns=m): m is a function from old names to new names
renamed(m, c) == IF c \in DOMAIN m THEN m[c] ELSE c
rename(df, m) ==
    [i \in DOMAIN df |->
        [n \in {renamed(m, c) : c \in DOMAIN df[i]} |->
            df[i][CHOOSE c \in DOMAIN df[i] : renamed(m, c) = n]]]

\* The order of sort_values: missing values last in both directions.
before(a, b, asc) ==
    /\ ~isna(a)
    /\ \/ isna(b)
       \/ asc /\ a < b
       \/ ~asc /\ a > b

\* df.sort_values(by, ascending=asc): rows that tie keep their order (the
\* sort of an object column of at most 16 rows is an insertion sort, and
\* nargsort reverses before and after a descending sort).
RECURSIVE sort_values_upto(_, _, _, _)
sort_values_upto(df, by, asc, n) ==
    IF n = 0 THEN <<>>
    ELSE LET sorted == sort_values_upto(df, by, asc, n - 1)
             pos == Cardinality({j \in DOMAIN sorted :
                        ~before(df[n][by], sorted[j][by], asc)})
         IN SubSeq(sorted, 1, pos) \o <<df[n]>> \o SubSeq(sorted, pos + 1, n - 1)
sort_values(df, by, asc) == sort_values_upto(df, by, asc, Len(df))

\* df.drop_duplicates(subset=subset, keep='first')
RECURSIVE drop_duplicates_upto(_, _, _)
drop_duplicates_upto(df, subset, n) ==
    IF n = 0 THEN <<>>
    ELSE LET rest == drop_duplicates_upto(df, subset, n - 1)
         IN IF \E j \in 1..(n - 1) : \A c \in subset : df[j][c] = df[n][c]
            THEN rest
            ELSE Append(rest, df[n])
drop_duplicates(df, subset) == drop_duplicates_upto(df, subset, Len(df))

\* left.merge(right, on=on, how='left'): a column other than the key that
\* both tables have is suffixed _x on the left and _y on the right.
suffixed(c, overlap, s) == IF c \in overlap THEN c \o s ELSE c
merge_part(row, cols, overlap, s) ==
    IF overlap = {} THEN [c \in cols |-> row[c]]
    ELSE [n \in {suffixed(c, overlap, s) : c \in cols} |->
            row[CHOOSE c \in cols : suffixed(c, overlap, s) = n]]
merge_rows(l, right, rcols, on) ==
    LET overlap == ((DOMAIN l) \cap rcols) \ {on}
        lpart == merge_part(l, DOMAIN l, overlap, "_x")
        hits == SelectSeq(right, LAMBDA r : r[on] = l[on])
        nulls == [c \in rcols \ {on} |-> NaN(c)]
    IN IF hits = <<>>
       THEN <<lpart @@ merge_part(nulls, rcols \ {on}, overlap, "_y")>>
       ELSE [k \in DOMAIN hits |->
                lpart @@ merge_part(hits[k], rcols \ {on}, overlap, "_y")]
RECURSIVE merge_upto(_, _, _, _, _)
merge_upto(left, right, rcols, on, n) ==
    IF n = 0 THEN <<>>
    ELSE merge_upto(left, right, rcols, on, n - 1)
            \o merge_rows(left[n], right, rcols, on)
merge(left, right, on) ==
    merge_upto(left, right, DOMAIN right[1], on, Len(left))

\* ------------------------------------------------------ the two data sources
\* GET /api/listthing: the inventory, one thing per device, unique keys.
ThingsResponse == [i \in Devices |-> [id |-> i, updated_at |-> i]]

\* GET /api/get-sensors: the assignment list.  Assignment h has device h as
\* its active device when h is odd and no active device when h is even, so
\* no device is the active device of two assignments.
SensorsResponse ==
    [h \in SensorNames |->
        [human_name |-> h, thing_active |-> IF h % 2 = 1 THEN h ELSE None]]

\* GET /api/v1/sensor/{human_name}?args=all_things: the historical device
\* list of one assignment, a list without repetition.
RECURSIVE ascending(_)
ascending(S) ==
    IF S = {} THEN <<>>
    ELSE LET m == CHOOSE x \in S : \A y \in S : x <= y
         IN <<[id |-> m]>> \o ascending(S \ {m})
AllThingsResponses(room) ==
    {ascending(S) : S \in {T \in SUBSET Devices : Cardinality(T) <= room}}

\* The raw status field of an event: absent, a string, or a list of strings.
\* A status line is its head and its quoted comma-separated fields.
QnwLine(code) ==
    [head |-> "+QNWINFO:", fields |-> <<"FDD LTE", code, "LTE BAND 103">>]
QnwAbsent == [shape |-> "absent", items |-> <<>>]
QnwStr(line) == [shape |-> "str", items |-> <<line>>]
QnwList(lines) == [shape |-> "list", items |-> lines]
\* A field that is neither a string nor a list (a number, a map, a set).
QnwOther == [shape |-> "other", items |-> <<>>]
\* An element of a list that is not a string.
QnwNumber == [number |-> 20820]
\* isinstance(item, str)
is_str(item) == "head" \in DOMAIN item

\* The status the events of assignment h carry.
QnwOf(h) ==
    CASE h % 3 = 1 -> QnwStr(QnwLine("20820"))
      [] h % 3 = 2 -> QnwAbsent
      [] OTHER -> QnwList(<<QnwLine("99999")>>)

\* The partition (device key, assignment name) of the event store: its
\* events in timestamp order.  The two queries read its first and its last
\* event only, so a partition of one or two events stands for every
\* partition with that first and that last event.
Partitions(h) ==
    LET ev(t) == [time_stamp |-> t, qnwinfo |-> QnwOf(h)]
    IN {<<>>} \cup {<<ev(t)>> : t \in Times}
         \cup {<<ev(t[1]), ev(t[2])>> : t \in {u \in Times \X Times : u[1] < u[2]}}

\* --------------------------------------------------------- the program
\* things_to_dataframe
things_to_dataframe(raw) ==
    [i \in DOMAIN raw |->
        [prod_name |-> raw[i].id, updated_at |-> raw[i].updated_at]]

\* sensors_to_dataframe
sensors_to_dataframe(raw) ==
    [i \in DOMAIN raw |->
        [prod_name |-> raw[i].thing_active, human_name |-> raw[i].human_name]]

\* add_human_name_column
add_human_name_column(t, s) == merge(t, s, "prod_name")

\* table.query(..., ScanIndexForward=forward, Limit=limit)['Items']
RECURSIVE reversed(_)
reversed(s) == IF s = <<>> THEN <<>> ELSE Append(reversed(Tail(s)), Head(s))
query(partition, forward, limit) ==
    LET scan == IF forward THEN partition ELSE reversed(partition)
    IN SubSeq(scan, 1, IF Len(scan) < limit THEN Len(scan) ELSE limit)

\* get_first_payload / get_last_payload: <<payload>>, or <<>> for None
get_first_payload(partition) ==
    LET Items == query(partition, TRUE, 1)
    IN IF Items # <<>> THEN <<Items[1]>> ELSE <<>>
get_last_payload(partition) ==
    LET Items == query(partition, FALSE, 1)
    IN IF Items # <<>> THEN <<Items[1]>> ELSE <<>>

get_timestamp(payload) == payload.time_stamp

\* The strings that \d{5} matches, among the codes the model uses.
FiveDigits ==
    {"20801", "20810", "20815", "20820", "21407", "21901", "21902", "21910",
     "22210", "22288", "23420", "26201", "50501", "60400", "61701", "61710",
     "99999"}

\* extract_plmn_code_from_qnwinfo: \+QNWINFO:\s*"[^"]*","(\d{5})",
extract_plmn_code_from_qnwinfo(line) ==
    IF /\ line.head = "+QNWINFO:"
       /\ Len(line.fields) >= 3
       /\ line.fields[2] \in FiveDigits
    THEN line.fields[2]
    ELSE NoOperator

get_operator_plmn_mappings ==
    [c \in (FiveDigits \ {"99999"}) |->
        CASE c = "20801" -> "Orange"
          [] c = "20810" -> "SFR"
          [] c = "20815" -> "Free"
          [] c = "20820" -> "Bouygues Telecom"
          [] c = "21407" -> "Movistar"
          [] c = "21901" -> "T-Mobile"
          [] c = "21902" -> "Telemach / Tele2"
          [] c = "21910" -> "A1 / VIP"
          [] c = "22210" -> "Vodafone"
          [] c = "22288" -> "WindTre / WIND"
          [] c = "23420" -> "3"
          [] c = "26201" -> "T-mobile"
          [] c = "50501" -> "Telstra"
          [] c = "60400" -> "Orange"
          [] c = "61701" -> "my.t mobile"
          [] c = "61710" -> "Emtel"]

\* Mutant of plmn_code_to_operator_name: .get(plmn_code), as its docstring
\* has it ("otherwise None").
plmn_code_to_operator_name_or_none(plmn_code) ==
    IF plmn_code \in DOMAIN get_operator_plmn_mappings
    THEN get_operator_plmn_mappings[plmn_code]
    ELSE NoOperator

\* plmn_code_to_operator_name: .get(plmn_code, plmn_code)
plmn_code_to_operator_name(plmn_code) ==
    IF plmn_code \in DOMAIN get_operator_plmn_mappings
    THEN get_operator_plmn_mappings[plmn_code]
    ELSE plmn_code

extract_operator_name_from_qnwinfo(line) ==
    LET plmn_code == extract_plmn_code_from_qnwinfo(line)
    IN IF plmn_code # NoOperator
       THEN plmn_code_to_operator_name(plmn_code)
       ELSE NoOperator

get_link_operator_from_qnwinfo(payload) ==
    LET qnwinfo == payload.qnwinfo
    IN CASE /\ qnwinfo.shape = "list"
            /\ Len(qnwinfo.items) = 1
            /\ is_str(qnwinfo.items[1]) ->
                extract_operator_name_from_qnwinfo(qnwinfo.items[1])
         [] qnwinfo.shape = "str" ->
                extract_operator_name_from_qnwinfo(qnwinfo.items[1])
         [] OTHER -> NoOperator

\* The dict get_link_dates appends for one (assignment, device) pair.
link_dates_record(h, prod_number, first_payload, last_payload) ==
    [human_name |-> h,
     prod_name |-> prod_number,
     link_date |->
        IF first_payload # <<>> THEN get_timestamp(first_payload[1]) ELSE None,
     link_operator |->
        IF first_payload # <<>>
        THEN get_link_operator_from_qnwinfo(first_payload[1])
        ELSE NoOperator,
     unlink_date |->
        IF last_payload # <<>> THEN get_timestamp(last_payload[1]) ELSE None]

\* Mutant of link_dates_append: a pair without first event is skipped.
link_dates_append_linked_only(ld, record) ==
    IF record["link_date"] = None THEN ld ELSE Append(ld, record)

\* link_dates.append({...})
link_dates_append(ld, record) == Append(ld, record)

\* add_sensor_link_date
add_sensor_link_date(t, ld) ==
    LET latest_link_dates ==
            drop(drop_duplicates(sort_values(ld, "link_date", FALSE),
                                 {"human_name"}),
                 {"human_name", "unlink_date"})
        things_merged == merge(t, latest_link_dates, "prod_name")
    IN rename(things_merged,
              [c \in {"link_operator", "link_date"} |->
                  IF c = "link_operator" THEN "last_link_operator"
                  ELSE "last_link_date"])

\* Mutant of add_last_unlink_date: the table is sorted on link_date, as in
\* add_sensor_link_date, instead of unlink_date.
add_last_unlink_date_by_link_date(t, ld) ==
    LET latest_unlink_dates ==
            rename(drop_duplicates(sort_values(ld, "link_date", FALSE),
                                   {"prod_name"}),
                   [c \in {"unlink_date"} |-> "last_unlink_date"])
    IN merge(t, select(latest_unlink_dates, {"prod_name", "last_unlink_date"}),
             "prod_name")

\* add_last_unlink_date
add_last_unlink_date(t, ld) ==
    LET latest_unlink_dates ==
            rename(drop_duplicates(sort_values(ld, "unlink_date", FALSE),
                                   {"prod_name"}),
                   [c \in {"unlink_date"} |-> "last_unlink_date"])
    IN merge(t, select(latest_unlink_dates, {"prod_name", "last_unlink_date"}),
             "prod_name")

\* Mutant of add_first_link_date: the sort is descending, as in the two
\* other passes.
add_first_link_date_descending(t, ld) ==
    LET oldest_link_dates ==
            rename(drop_duplicates(sort_values(ld, "link_date", FALSE),
                                   {"prod_name"}),
                   [c \in {"link_date"} |-> "first_link_date"])
    IN merge(t, select(oldest_link_dates, {"prod_name", "first_link_date"}),
             "prod_name")

\* Mutant of add_first_link_date: the column is not renamed, so the pass
\* writes link_date, the column add_sensor_link_date merges and renames.
add_first_link_date_unrenamed(t, ld) ==
    LET oldest_link_dates ==
            drop_duplicates(sort_values(ld, "link_date", TRUE), {"prod_name"})
    IN merge(t, select(oldest_link_dates, {"prod_name", "link_date"}),
             "prod_name")

\* add_first_link_date
add_first_link_date(t, ld) ==
    LET oldest_link_dates ==
            rename(drop_duplicates(sort_values(ld, "link_date", TRUE),
                                   {"prod_name"}),
                   [c \in {"link_date"} |-> "first_link_date"])
    IN merge(t, select(oldest_link_dates, {"prod_name", "first_link_date"}),
             "prod_name")

\* add_deactivation_date_column: defined by the program, never called by main.
\* It reads the column 'status', which no function of the program writes.
add_deactivation_date_column(t) ==
    [i \in DOMAIN t |->
        t[i] @@ [c \in {"deactivation_date"} |->
                    IF t[i]["status"] = "Out of order"
                    THEN t[i]["updated_at"] ELSE None]]

\* ------------------------------------------------- version and features
\* A serial number: absent (None), or a string.  A string is the sequence of
\* its tokens: the literal prefix "muvtx_", "_", a letter, or a digit.
SerialAbsent == [shape |-> "absent", chars |-> <<>>]
SerialStr(s) == [shape |-> "str", chars |-> s]

\* The strings that \d matches, by value: DigitChars[n + 1] is str(n).
DigitChars == <<"0", "1", "2", "3", "4", "5", "6", "7", "8", "9">>
Digit == {DigitChars[i] : i \in DOMAIN DigitChars}
int(d) == (CHOOSE i \in DOMAIN DigitChars : DigitChars[i] = d) - 1
str(n) == DigitChars[n + 1]

\* Python None in the column version.
NoVersion == "None"

\* The start positions of the matches of muvtx_(\d{3})_ in s.
pattern_matches(s) ==
    {i \in 1..(Len(s) - 4) :
        /\ s[i] = "muvtx_"
        /\ \A k \in 1..3 : s[i + k] \in Digit
        /\ s[i + 4] = "_"}

\* Mutant of extract_version_from_serial: the major number is read from the
\* first digit of the group.
extract_version_from_serial_first_digit(serial_number) ==
    IF serial_number.shape = "absent" \/ serial_number.chars = <<>>
    THEN NoVersion
    ELSE LET s == serial_number.chars
             found == pattern_matches(s)
         IN IF found # {}
            THEN LET start == CHOOSE i \in found : \A j \in found : i <= j
                     version_digits == SubSeq(s, start + 1, start + 3)
                     major == str(int(version_digits[1]))
                     minor == version_digits[3]
                 IN major \o "." \o minor
            ELSE NoVersion

\* extract_version_from_serial: re.search returns the leftmost match.
extract_version_from_serial(serial_number) ==
    IF serial_number.shape = "absent" \/ serial_number.chars = <<>>
    THEN NoVersion
    ELSE LET s == serial_number.chars
             found == pattern_matches(s)
         IN IF found # {}
            THEN LET start == CHOOSE i \in found : \A j \in found : i <= j
                     version_digits == SubSeq(s, start + 1, start + 3)
                     major == str(int(version_digits[2]))
                     minor == version_digits[3]
                 IN major \o "." \o minor
            ELSE NoVersion

\* add_version_column
add_version_column(t) ==
    [i \in DOMAIN t |->
        t[i] @@ [c \in {"version"} |->
                    extract_version_from_serial(t[i]["serial_number"])]]

\* FEATURE_VERSION_THRESHOLD = 2.1, in tenths.
FEATURE_VERSION_THRESHOLD == 21

\* float(version_str) in tenths, as <<value>>; <<>> when float raises
\* ValueError.  The strings parsed are those of the form "X.Y".
float(version_str) ==
    LET parses == {p \in (0..9) \X (0..9) :
                      str(p[1]) \o "." \o str(p[2]) = version_str}
    IN IF parses = {} THEN <<>>
       ELSE LET p == CHOOSE q \in parses : TRUE IN <<10 * p[1] + p[2]>>

\* add_feature_columns.get_features: (hauteur, temperature, image)
get_features(version_str) ==
    IF version_str = NoVersion THEN <<"Non", "Non", "Non">>
    ELSE LET version_float == float(version_str)
         IN IF version_float = <<>> THEN <<"Non", "Non", "Non">>
            ELSE IF version_float[1] >= FEATURE_VERSION_THRESHOLD
                 THEN <<"Oui", "Oui", "Oui">>
                 ELSE <<"Oui", "Non", "Oui">>

\* add_feature_columns
add_feature_columns(t) ==
    [i \in DOMAIN t |->
        LET features == get_features(t[i]["version"])
        IN t[i] @@ [c \in {"hauteur", "temperature", "image"} |->
                       CASE c = "hauteur" -> features[1]
                         [] c = "temperature" -> features[2]
                         [] OTHER -> features[3]]]

\* ------------------------------------------------------------ the state
VARIABLES
    pc,             \* position of main
    things,         \* the device table
    sensors,        \* the assignment table
    link_dates,     \* the history records collected so far
    names,          \* get_link_dates: human names still to iterate
    human_name,     \* get_link_dates: the assignment of the inner loop
    all_things,     \* get_link_dates: things of it still to iterate
    applied,        \* the enrichment passes applied to things
    files,          \* the files written: name -> table
    api_all_things, \* the historical lists the API returned: name -> list
    store           \* the partitions queried: <<name, key>> -> events

vars == <<pc, things, sensors, link_dates, names, human_name, all_things,
          applied, files, api_all_things, store>>

Passes == {"add_sensor_link_date", "add_first_link_date", "add_last_unlink_date"}

Init ==
    /\ pc = "list_things"
    /\ things = <<>>
    /\ sensors = <<>>
    /\ link_dates = <<>>
    /\ names = <<>>
    /\ human_name = None
    /\ all_things = <<>>
    /\ applied = {}
    /\ files = <<>>
    /\ api_all_things = <<>>
    /\ store = <<>>

\* df.to_csv(name): the file is created or overwritten.
to_csv(fs, name, df) ==
    [n \in (DOMAIN fs) \cup {name} |-> IF n = name THEN df ELSE fs[n]]

\* main, lines 705-708: the inventory is fetched, normalised and written.
ListThings ==
    /\ pc = "list_things"
    /\ things' = things_to_dataframe(ThingsResponse)
    /\ files' = to_csv(files, "things.csv", things')
    /\ pc' = "get_sensors"
    /\ UNCHANGED <<sensors, link_dates, names, human_name, all_things, applied,
                   api_all_things, store>>

\* main, lines 710-713, and the entry of get_link_dates.
GetSensors ==
    /\ pc = "get_sensors"
    /\ sensors' = sensors_to_dataframe(SensorsResponse)
    /\ things' = add_human_name_column(things, sensors')
    /\ link_dates' = <<>>
    /\ names' = [i \in DOMAIN sensors' |-> sensors'[i]["human_name"]]
    /\ pc' = "get_link_dates"
    /\ UNCHANGED <<human_name, all_things, applied, files, api_all_things, store>>

\* get_link_dates, the outer loop: one assignment's historical list.
GetSensorAllThings ==
    /\ pc = "get_link_dates"
    /\ all_things = <<>>
    /\ names # <<>>
    /\ \E response \in AllThingsResponses(MaxPairs - Len(link_dates)) :
          /\ all_things' = response
          /\ api_all_things' =
                [h \in (DOMAIN api_all_things) \cup {Head(names)} |->
                    IF h = Head(names) THEN response ELSE api_all_things[h]]
    /\ human_name' = Head(names)
    /\ names' = Tail(names)
    /\ UNCHANGED <<pc, things, sensors, link_dates, applied, files, store>>

\* get_link_dates, the inner loop: the two queries of one pair and its record.
QueryPayloads ==
    /\ pc = "get_link_dates"
    /\ all_things # <<>>
    /\ \E partition \in Partitions(human_name) :
          LET prod_number == Head(all_things).id
              first_payload == get_first_payload(partition)
              last_payload == get_last_payload(partition)
          IN /\ link_dates' =
                    link_dates_append(link_dates,
                        link_dates_record(human_name, prod_number,
                                          first_payload, last_payload))
             /\ store' =
                    [k \in (DOMAIN store) \cup {<<human_name, prod_number>>} |->
                        IF k = <<human_name, prod_number>> THEN partition
                        ELSE store[k]]
    /\ all_things' = Tail(all_things)
    /\ UNCHANGED <<pc, things, sensors, names, human_name, applied, files,
                   api_all_things>>

\* get_link_dates, lines 605-607, and main, line 717.  pd.DataFrame([]) has
\* no column, so sort_values(by='human_name') raises KeyError on it.
SortLinkDates ==
    /\ pc = "get_link_dates"
    /\ all_things = <<>>
    /\ names = <<>>
    /\ IF link_dates = <<>>
       THEN /\ pc' = "raised"
            /\ UNCHANGED <<link_dates, files>>
       ELSE /\ link_dates' = sort_values(link_dates, "human_name", TRUE)
            /\ files' = to_csv(files, "link_dates.csv", link_dates')
            /\ pc' = "enrich"
    /\ UNCHANGED <<things, sensors, names, human_name, all_things, applied,
                   api_all_things, store>>

\* A request to the API or a query to the store fails: requests.get or
\* raise_for_status or table.query raises, nothing catches it.
RequestFails ==
    /\ \/ pc \in {"list_things", "get_sensors"}
       \/ pc = "get_link_dates" /\ (all_things # <<>> \/ names # <<>>)
    /\ pc' = "aborted"
    /\ UNCHANGED <<things, sensors, link_dates, names, human_name, all_things,
                   applied, files, api_all_things, store>>

\* main, line 719
AddSensorLinkDate ==
    /\ pc = "enrich"
    /\ applied = {}
    /\ things' = add_sensor_link_date(things, link_dates)
    /\ applied' = applied \cup {"add_sensor_link_date"}
    /\ UNCHANGED <<pc, sensors, link_dates, names, human_name, all_things, files,
                   api_all_things, store>>

\* main, line 720
AddFirstLinkDate ==
    /\ pc = "enrich"
    /\ applied = {"add_sensor_link_date"}
    /\ things' = add_first_link_date(things, link_dates)
    /\ applied' = applied \cup {"add_first_link_date"}
    /\ UNCHANGED <<pc, sensors, link_dates, names, human_name, all_things, files,
                   api_all_things, store>>

\* main, line 721
AddLastUnlinkDate ==
    /\ pc = "enrich"
    /\ applied = {"add_sensor_link_date", "add_first_link_date"}
    /\ things' = add_last_unlink_date(things, link_dates)
    /\ applied' = applied \cup {"add_last_unlink_date"}
    /\ UNCHANGED <<pc, sensors, link_dates, names, human_name, all_things, files,
                   api_all_things, store>>

\* main, lines 722-724
WriteThings ==
    /\ pc = "enrich"
    /\ applied = Passes
    /\ files' = to_csv(files, "things.csv", things)
    /\ pc' = "exit"
    /\ UNCHANGED <<things, sensors, link_dates, names, human_name, all_things,
                   applied, api_all_things, store>>

Next ==
    \/ ListThings
    \/ GetSensors
    \/ GetSensorAllThings
    \/ QueryPayloads
    \/ SortLinkDates
    \/ RequestFails
    \/ AddSensorLinkDate
    \/ AddFirstLinkDate
    \/ AddLastUnlinkDate
    \/ WriteThings

Spec == Init /\ [][Next]_vars

\* The three passes of main, lines 719-721, applied in any order.
PassSensorLinkDate ==
    /\ pc = "enrich"
    /\ "add_sensor_link_date" \notin applied
    /\ things' = add_sensor_link_date(things, link_dates)
    /\ applied' = applied \cup {"add_sensor_link_date"}
    /\ UNCHANGED <<pc, sensors, link_dates, names, human_name, all_things, files,
                   api_all_things, store>>

PassFirstLinkDate ==
    /\ pc = "enrich"
    /\ "add_first_link_date" \notin applied
    /\ things' = add_first_link_date(things, link_dates)
    /\ applied' = applied \cup {"add_first_link_date"}
    /\ UNCHANGED <<pc, sensors, link_dates, names, human_name, all_things, files,
                   api_all_things, store>>

PassLastUnlinkDate ==
    /\ pc = "enrich"
    /\ "add_last_unlink_date" \notin applied
    /\ things' = add_last_unlink_date(things, link_dates)
    /\ applied' = applied \cup {"add_last_unlink_date"}
    /\ UNCHANGED <<pc, sensors, link_dates, names, human_name, all_things, files,
                   api_all_things, store>>

NextPasses ==
    \/ ListThings
    \/ GetSensors
    \/ GetSensorAllThings
    \/ QueryPayloads
    \/ SortLinkDates
    \/ PassSensorLinkDate
    \/ PassFirstLinkDate
    \/ PassLastUnlinkDate

\* The run up to the history table, every request succeeding, and then the
\* three passes taken in every order.
SpecPasses == Init /\ [][NextPasses]_vars

\* ------------------------------------- the derivation from the serial
\* The tokens serial numbers are drawn from.
SerialTokens == {"muvtx_", "_", "a", "0", "1", "2"}
\* A well-formed component, with a version of its own.
SerialComponent == <<"muvtx_", "0", "2", "2", "_">>
\* What follows the freely drawn tokens of a serial: nothing, or the component.
SerialTails == {<<>>, SerialComponent}

\* things_to_dataframe, on an inventory of one thing with this serial.
things_of_serial(serial_number) ==
    <<[prod_name |-> 1, serial_number |-> serial_number]>>

\* main, line 705: the inventory of one thing, whose serial is absent or a
\* string of at most MaxSerialLen tokens, alone or followed by the component.
InitSerial ==
    /\ pc = "add_version_column"
    /\ \/ things = things_of_serial(SerialAbsent)
       \/ \E k \in 0..MaxSerialLen : \E s \in [1..k -> SerialTokens] :
             \E tail \in SerialTails :
                things = things_of_serial(SerialStr(s \o tail))
    /\ sensors = <<>>
    /\ link_dates = <<>>
    /\ names = <<>>
    /\ human_name = None
    /\ all_things = <<>>
    /\ applied = {}
    /\ files = <<>>
    /\ api_all_things = <<>>
    /\ store = <<>>

\* main, line 706
AddVersionColumn ==
    /\ pc = "add_version_column"
    /\ things' = add_version_column(things)
    /\ pc' = "add_feature_columns"
    /\ UNCHANGED <<sensors, link_dates, names, human_name, all_things, applied,
                   files, api_all_things, store>>

\* main, line 707
AddFeatureColumns ==
    /\ pc = "add_feature_columns"
    /\ things' = add_feature_columns(things)
    /\ pc' = "features_added"
    /\ UNCHANGED <<sensors, link_dates, names, human_name, all_things, applied,
                   files, api_all_things, store>>

NextSerial ==
    \/ AddVersionColumn
    \/ AddFeatureColumns

SpecSerial == InitSerial /\ [][NextSerial]_vars

\* ------------------------------------------- the operator of one event
\* The status lines of the events: a head and at most MaxFields quoted fields.
QnwHeads == {"+QNWINFO:", "+CSQ:"}
QnwFields == {"FDD LTE", "20820", "60400", "99999", "2082", "208200"}
QnwLines ==
    {[head |-> h, fields |-> f] :
        h \in QnwHeads, f \in UNION {[1..k -> QnwFields] : k \in 0..MaxFields}}
\* The raw status fields: absent, a string, a list of no, one or two
\* elements, strings or not, or a value of another type.
QnwInfos ==
    {QnwAbsent, QnwOther, QnwList(<<>>), QnwList(<<QnwNumber>>)}
      \cup {QnwStr(l) : l \in QnwLines}
      \cup {QnwList(<<l>>) : l \in QnwLines}
      \cup {QnwList(<<l, QnwLine("20820")>>) : l \in QnwLines}
      \cup {QnwList(<<l, QnwNumber>>) : l \in QnwLines}

\* get_link_dates in its inner loop, on the only thing of the only assignment.
InitOperator ==
    /\ pc = "get_link_dates"
    /\ things = <<>>
    /\ sensors = <<>>
    /\ link_dates = <<>>
    /\ names = <<>>
    /\ human_name = 1
    /\ all_things = <<[id |-> 1]>>
    /\ applied = {}
    /\ files = <<>>
    /\ api_all_things = <<>>
    /\ store = <<>>

\* get_link_dates, lines 590-604, on a partition of one event whose status
\* field is any of QnwInfos.
QueryStatusPayload ==
    /\ pc = "get_link_dates"
    /\ all_things # <<>>
    /\ \E qnwinfo \in QnwInfos :
          LET partition == <<[time_stamp |-> 1, qnwinfo |-> qnwinfo]>>
              prod_number == Head(all_things).id
              first_payload == get_first_payload(partition)
              last_payload == get_last_payload(partition)
          IN /\ link_dates' =
                    link_dates_append(link_dates,
                        link_dates_record(human_name, prod_number,
                                          first_payload, last_payload))
             /\ store' =
                    [k \in (DOMAIN store) \cup {<<human_name, prod_number>>} |->
                        IF k = <<human_name, prod_number>> THEN partition
                        ELSE store[k]]
    /\ all_things' = Tail(all_things)
    /\ UNCHANGED <<pc, things, sensors, names, human_name, applied, files,
                   api_all_things>>

NextOperator ==
    \/ QueryStatusPayload
    \/ SortLinkDates

SpecOperator == InitOperator /\ [][NextOperator]_vars

\* ------------------------------------------------------------ the claims
\* The run reached sys.exit(0): things is the table written to things.csv.
Done == pc = "exit"

rows_of(d) == {i \in DOMAIN things : things[i]["prod_name"] = d}
records_of(d) == {i \in DOMAIN link_dates : link_dates[i]["prod_name"] = d}
link_dates_of(d) == {link_dates[i]["link_date"] : i \in records_of(d)} \ {None}
unlink_dates_of(d) == {link_dates[i]["unlink_date"] : i \in records_of(d)} \ {None}
Max(S) == CHOOSE x \in S : \A y \in S : y <= x
Min(S) == CHOOSE x \in S : \A y \in S : x <= y

\* C1: the final table holds exactly one row per device of the inventory,
\* also for a device with history records under several assignment names.
C1_LeftJoinTotality ==
    Done => \A d \in Devices : Cardinality(rows_of(d)) = 1

\* C2: a device with a history record of non-null link_date gets, in each of
\* its rows, the maximum link_date of its own records as last_link_date and
\* the link_operator of a record holding that maximum as last_link_operator.
C2_LastLinkPerDevice ==
    Done =>
        \A d \in Devices :
            link_dates_of(d) # {} =>
                /\ rows_of(d) # {}
                /\ \A i \in rows_of(d) :
                      \E k \in records_of(d) :
                          /\ link_dates[k]["link_date"] = Max(link_dates_of(d))
                          /\ things[i]["last_link_date"] = link_dates[k]["link_date"]
                          /\ things[i]["last_link_operator"] =
                                link_dates[k]["link_operator"]

C4_ZeroHistoryBoundary ==
    /\ pc # "raised"
    /\ Done =>
          \A d \in Devices :
              link_dates_of(d) \cup unlink_dates_of(d) = {} =>
                  /\ rows_of(d) # {}
                  /\ \A i \in rows_of(d) :
                        /\ things[i]["first_link_date"] = None
                        /\ things[i]["last_link_date"] = None
                        /\ things[i]["last_unlink_date"] = None

\* C5: in every row of the final table with first_link_date and
\* last_link_date both non-null, first_link_date <= last_link_date.
C5_FirstBeforeLast ==
    Done =>
        \A i \in DOMAIN things :
            (things[i]["first_link_date"] # None
                /\ things[i]["last_link_date"] # None)
            => things[i]["first_link_date"] <= things[i]["last_link_date"]

\* C5 witness: a final row whose first_link_date is earlier than its
\* last_link_date, both taken from the history.
C5_Witness ==
    /\ Done
    /\ \E i \in DOMAIN things :
          /\ things[i]["first_link_date"] # None
          /\ things[i]["first_link_date"] < things[i]["last_link_date"]

\* The table main hands to the first pass, and the passes of a set S applied
\* to it in the order of main.
things_before_passes ==
    add_human_name_column(things_to_dataframe(ThingsResponse), sensors)
in_order_of_main(S) ==
    LET a == IF "add_sensor_link_date" \in S
             THEN add_sensor_link_date(things_before_passes, link_dates)
             ELSE things_before_passes
        b == IF "add_first_link_date" \in S
             THEN add_first_link_date(a, link_dates) ELSE a
    IN IF "add_last_unlink_date" \in S
       THEN add_last_unlink_date(b, link_dates) ELSE b
count(df, r) == Cardinality({i \in DOMAIN df : df[i] = r})
same_rows(a, b) ==
    /\ Len(a) = Len(b)
    /\ \A i \in DOMAIN a : count(a, a[i]) = count(b, a[i])
\* Every row of new extends a row of old, and every row of old is extended.
extends(old, new) ==
    LET ext(r, q) == \A c \in DOMAIN r : c \in DOMAIN q /\ q[c] = r[c]
    IN /\ \A j \in DOMAIN new : \E i \in DOMAIN old : ext(old[i], new[j])
       /\ \A i \in DOMAIN old : \E j \in DOMAIN new : ext(old[i], new[j])

\* C6: when the three passes have been applied, in whatever order, the
\* table has the rows, with multiplicities, that the passes give in the
\* order of main, and every row still extends a row of the table the
\* passes received: the columns it had are as they were.
C6_PassesCommute ==
    (pc = "enrich" /\ applied = Passes) =>
        /\ same_rows(things, in_order_of_main(Passes))
        /\ extends(things_before_passes, things)

\* C6 witness: the three passes were applied on a history that gives a
\* device two rows and dates that are not null.
C6_Witness ==
    /\ pc = "enrich"
    /\ applied = Passes
    /\ Len(things) > Len(things_before_passes)
    /\ \E i \in DOMAIN things :
          /\ things[i]["first_link_date"] # None
          /\ things[i]["first_link_date"] < things[i]["last_link_date"]
          /\ things[i]["last_unlink_date"] # None

\* C7: a run in which a request to the API or a query to the event store
\* failed has written no output file.
C7_AllOrNothing ==
    pc = "aborted" => DOMAIN files = {}

\* C9: every row of the final table carries a status, operational exactly
\* when the device is the active device of some assignment, and a
\* deactivation date equal to updated_at when non-operational, else null.
C9_StatusDerivation ==
    Done =>
        \A i \in DOMAIN things :
            /\ {"status", "deactivation_date"} \subseteq DOMAIN things[i]
            /\ things[i]["status"] # "Out of order"
                  <=> \E h \in DOMAIN SensorsResponse :
                         SensorsResponse[h].thing_active = things[i]["prod_name"]
            /\ things[i]["deactivation_date"] =
                  IF things[i]["status"] = "Out of order"
                  THEN things[i]["updated_at"] ELSE None

\* The (assignment name, device key) pairs of the historical lists returned.
expanded_pairs ==
    {p \in SensorNames \X Devices :
        /\ p[1] \in DOMAIN api_all_things
        /\ \E k \in DOMAIN api_all_things[p[1]] :
              api_all_things[p[1]][k].id = p[2]}

serial_chars == things[1]["serial_number"].chars
\* The positions where the prefix is followed by three digits.
prefix_and_digits ==
    {i \in 1..(Len(serial_chars) - 3) :
        /\ serial_chars[i] = "muvtx_"
        /\ \A k \in 1..3 : serial_chars[i + k] \in Digit}
\* The positions where the prefix is followed by three digits and "_".
prefix_digits_underscore ==
    {i \in prefix_and_digits :
        i + 4 <= Len(serial_chars) /\ serial_chars[i + 4] = "_"}
flags == <<things[1]["hauteur"], things[1]["temperature"], things[1]["image"]>>
\* The row is what the digits D1 D2 D3 at position i derive.
derived_from(i) ==
    LET D2 == serial_chars[i + 2]
        D3 == serial_chars[i + 3]
    IN /\ things[1]["version"] = str(int(D2)) \o "." \o D3
       /\ flags = IF 10 * int(D2) + int(D3) < 21
                  THEN <<"Oui", "Non", "Oui">>
                  ELSE <<"Oui", "Oui", "Oui">>
derived_nothing ==
    /\ things[1]["version"] = NoVersion
    /\ flags = <<"Non", "Non", "Non">>

status_field == store[<<1, 1>>][1].qnwinfo
recorded_operator == link_dates[1]["link_operator"]
\* The strings the field holds as a string or as a one-element list.
status_strings ==
    IF \/ status_field.shape = "str"
       \/ /\ status_field.shape = "list"
          /\ Len(status_field.items) = 1
          /\ is_str(status_field.items[1])
    THEN {status_field.items[1]}
    ELSE {}
\* The line has the expected shape: the head, a quoted field, a quoted
\* 5-digit code, and something after it.
has_code(line) ==
    /\ line.head = "+QNWINFO:"
    /\ Len(line.fields) >= 3
    /\ line.fields[2] \in {"20820", "60400", "99999"}

====
